---- MODULE Spec2Model ----
(***************************************************************************)
(* Verification model of the wplace timelapse scripts.                     *)
(*                                                                         *)
(*   capture_tiles.py    download_tile, merge_tiles, main                  *)
(*   create_timelapse.py get_images_for_date, create_timelapse_video, main *)
(*                                                                         *)
(*   generate_timelapse.py  main                                           *)
(*                                                                         *)
(* Six specifications share the variables below:                           *)
(*   SpecFetch  download_tile called on its own, any max_retries           *)
(*   Spec       one run of capture_tiles.main                              *)
(*   SpecMerge  merge_tiles called on its own, any grid / tile list        *)
(*   SpecVideo  create_timelapse.main, or create_timelapse_video called    *)
(*              on its own with any list of paths                          *)
(*   SpecResize resize_image_to_fit called on its own, any two sizes       *)
(*   SpecGenerate  one run of generate_timelapse.py                        *)
(***************************************************************************)
EXTENDS Integers, Sequences, FiniteSets, TLC

VARIABLES
    \* ---- download_tile (capture_tiles.py:30-44)
    dt_pc,          \* "idle" | "for" | "try" | "returned" | "raised"
    dt_url,         \* <<x, y>> of the tile being fetched
    max_retries,    \* the max_retries argument of the call
    attempt,        \* the loop variable of line 34
    responses,      \* history: outcome of every session.get of this call
    slept,          \* history: argument of every time.sleep of this call
    dt_ret,         \* the value returned (None until then)
    calls,          \* history: every call of download_tile, in order, with its outcome
    \* ---- capture_tiles.main (capture_tiles.py:96-153)
    cap_pc,         \* position in main, "harness" when main is not running
    tile_idx,       \* index (1-based) of the coordinate the for loop is at
    tile_data,      \* the list built at lines 119/123
    success_count,
    merged_image,   \* result of merge_tiles at line 133
    files,          \* output files written by this run
    cap_ret,        \* what main returned ("running" until it returns)
    cap_exit,       \* completion status of the process ("running" until it ends)
    \* ---- merge_tiles called on its own (capture_tiles.py:46-66)
    m_pc,           \* "idle" | "call" | "done"
    m_grid,         \* grid_size = (columns, rows)
    m_tile,         \* tile_size = (tile_w, tile_h)
    m_data,         \* tile_data
    m_image,        \* the image returned
    \* ---- create_timelapse.py
    entry,          \* "main": the script runs; "direct": create_timelapse_video is called on its own
    dir_exists,     \* os.path.exists(date_folder)
    directory,      \* the file names in output/<date>/
    folder_images,  \* what glob.glob returned, in its order (line 44), until main looks at the list
    images,         \* the list of paths: main's, and create_timelapse_video's argument
    v_pc,           \* position in main / create_timelapse_video
    frame_i,        \* the loop variable i of line 184
    frame_log,      \* history: what loading and composing did for each snapshot so far
    writer,         \* "none" | "open" | "unopened" | "released"
    written,        \* history: the frames handed to video_writer.write, in order
    release_count,  \* history: calls of video_writer.release
    out_file,       \* the file at output_path: whether it exists, the frames in it
    latest,         \* timelapse/latest.mp4
    latest_before,  \* history: timelapse/latest.mp4 as the run found it
    readme,         \* README.md: "old", or "new" once rewritten with the link
    ctv_ret,        \* what create_timelapse_video returned ("none" until then)
    main_ret,       \* what main returned ("none" until then)
    v_exit,         \* completion status of the process ("running" until it ends)
    \* ---- resize_image_to_fit called on its own (create_timelapse.py:63-102)
    r_pc,           \* "idle" | "call" | "returned" | "raised"
    r_size,         \* image.size = (img_width, img_height)
    r_target,       \* (target_width, target_height)
    r_ret,          \* what the call returned: the canvas size, the box, how the image was resized
    \* ---- generate_timelapse.py
    g_pc,           \* position in main, "idle" when the script is not running
    g_dir,          \* the file names in images/
    g_list_ret,     \* what create_image_list_file returned
    g_docs,         \* docs/: image_list.txt, the names in docs/images/, timelapse.mp4, timelapse.gif
    g_info,         \* docs/timelapse_info.json
    g_ffmpeg_runs,  \* history: calls of subprocess.run
    g_ret,          \* what create_timelapse_with_ffmpeg returned ("none" until then)
    g_raised,       \* the exception that left main ("none" if none did)
    g_exit          \* completion status of the process ("running" until it ends)

fetchVars == <<dt_pc, dt_url, max_retries, attempt, responses, slept, dt_ret, calls>>
capVars   == <<cap_pc, tile_idx, tile_data, success_count,
               merged_image, files, cap_ret, cap_exit>>
mergeVars == <<m_pc, m_grid, m_tile, m_data, m_image>>
videoVars == <<entry, dir_exists, directory, folder_images, images, v_pc, frame_i,
               frame_log, writer, written, release_count, out_file, latest,
               latest_before, readme, ctv_ret, main_ret, v_exit>>
resizeVars == <<r_pc, r_size, r_target, r_ret>>
genVars   == <<g_pc, g_dir, g_list_ret, g_docs, g_info, g_ffmpeg_runs, g_ret,
               g_raised, g_exit>>

-----------------------------------------------------------------------------
(* Bounds of the model *)

MaxRetries == 4
MaxCols == 2
MaxRows == 2
MaxTile == 2
MaxTiles == 5
MaxFiles == 3
MaxSrc == 11
MaxTarget == 4
MaxSnapshots == 3

-----------------------------------------------------------------------------
(* Values *)

\* capture_tiles.py:14-18
TILE_COORDS ==
    << <<1506, 631>>, <<1507, 631>>, <<1508, 631>>,
       <<1506, 632>>, <<1507, 632>>, <<1508, 632>>,
       <<1506, 633>>, <<1507, 633>>, <<1508, 633>> >>

\* default of download_tile's max_retries parameter
DefaultMaxRetries == 3

\* defaults of merge_tiles' grid_size and tile_size parameters
DefaultGridSize == <<3, 3>>
DefaultTileSize == <<1000, 1000>>

\* Python's None, in the shape of the values it is compared with
None == [kind |-> "None", url |-> <<0, 0>>, body |-> [fmt |-> "none", w |-> 0, h |-> 0]]

\* a payload that decodes to a w x h image, and one that does not decode
Png(w, h) == [fmt |-> "png", w |-> w, h |-> h]
Junk      == [fmt |-> "junk", w |-> 0, h |-> 0]

\* response.content of a 2xx answer to GET url
Content(url, body) == [kind |-> "bytes", url |-> url, body |-> body]

\* what the tile server can answer with a 2xx status: a tile of the known
\* size, or bytes that are no image
ServerBodies == {Png(DefaultTileSize[1], DefaultTileSize[2]), Junk}

-----------------------------------------------------------------------------
(* download_tile, capture_tiles.py:30-44 *)

\* line 41: is another attempt made after the failure of attempt a?
retry_allowed_off_by_one(a, m) == a < m

retry_allowed(a, m) == a < m - 1

\* line 42: the delay slept after the failure of attempt a
backoff_delay_linear(a) == 2 * a

backoff_delay(a) == 2 ^ a

\* the state of a fresh call download_tile(x, y, session, m)
dt_called(url, m) ==
    /\ dt_pc' = "for"
    /\ dt_url' = url
    /\ max_retries' = m
    /\ attempt' = 0
    /\ responses' = << >>
    /\ slept' = << >>
    /\ dt_ret' = None
    /\ calls' = Append(calls, [url |-> url, outcome |-> "running", ret |-> None])

\* the call in progress ends: it returned ret, or it raised
dt_ended(outcome, ret) ==
    calls' = [calls EXCEPT ![Len(calls)] = [url |-> dt_url, outcome |-> outcome, ret |-> ret]]

\* line 34: for attempt in range(max_retries); falling off the loop returns None
dt_for ==
    /\ dt_pc = "for"
    /\ IF attempt < max_retries
       THEN dt_pc' = "try" /\ dt_ret' = dt_ret /\ calls' = calls
       ELSE dt_pc' = "returned" /\ dt_ret' = None /\ dt_ended("returned", None)
    /\ UNCHANGED <<dt_url, max_retries, attempt, responses, slept>>
    /\ UNCHANGED <<capVars, mergeVars, videoVars, resizeVars, genVars>>

\* lines 36-38: the GET succeeds with a 2xx status, its content is returned
dt_get_ok ==
    /\ dt_pc = "try"
    /\ \E body \in ServerBodies :
         /\ responses' = Append(responses, [ok |-> TRUE, content |-> Content(dt_url, body)])
         /\ dt_ret' = Content(dt_url, body)
         /\ dt_ended("returned", Content(dt_url, body))
    /\ dt_pc' = "returned"
    /\ UNCHANGED <<dt_url, max_retries, attempt, slept>>
    /\ UNCHANGED <<capVars, mergeVars, videoVars, resizeVars, genVars>>

\* lines 36-37, 39-44: the GET or raise_for_status raises; sleep and go on,
\* or re-raise after the last attempt
dt_get_fail ==
    /\ dt_pc = "try"
    /\ responses' = Append(responses, [ok |-> FALSE, content |-> None])
    /\ IF retry_allowed(attempt, max_retries)
       THEN /\ slept' = Append(slept, backoff_delay(attempt))
            /\ attempt' = attempt + 1
            /\ dt_pc' = "for"
            /\ calls' = calls
       ELSE /\ slept' = slept
            /\ attempt' = attempt
            /\ dt_pc' = "raised"
            /\ dt_ended("raised", None)
    /\ UNCHANGED <<dt_url, max_retries, dt_ret>>
    /\ UNCHANGED <<capVars, mergeVars, videoVars, resizeVars, genVars>>

-----------------------------------------------------------------------------
(* merge_tiles, capture_tiles.py:46-66 *)

\* lines 48-49: size of the merged image
merged_size_square(grid_size, tile_size) ==
    <<grid_size[1] * tile_size[1], grid_size[1] * tile_size[2]>>

merged_size(grid_size, tile_size) ==
    <<grid_size[1] * tile_size[1], grid_size[2] * tile_size[2]>>

\* lines 58-61: where the tile with (0-based) list index i is pasted
paste_box_by_rows(i, grid_size, tile_size) ==
    <<(i % grid_size[2]) * tile_size[1], (i \div grid_size[2]) * tile_size[2]>>

paste_box(i, grid_size, tile_size) ==
    LET row == i \div grid_size[1]
        col == i % grid_size[1]
    IN  <<col * tile_size[1], row * tile_size[2]>>

\* line 57: Image.open succeeds on bytes that are an image
decodable(data) == data.body.fmt = "png"

\* lines 52-64: the loop, from (1-based) position k of tile_data on; an image is
\* its size and the pastes made onto it, in order
RECURSIVE merge_from(_, _, _, _, _)
merge_from(k, tile_data_, grid_size, tile_size, image) ==
    IF k > Len(tile_data_) THEN image
    ELSE LET data == tile_data_[k]
             i    == k - 1
             at   == paste_box(i, grid_size, tile_size)
             next ==
                 IF data = None THEN image
                 ELSE IF ~decodable(data) THEN image
                 ELSE [image EXCEPT !.pastes =
                          Append(@, [i |-> i, x |-> at[1], y |-> at[2],
                                     w |-> data.body.w, h |-> data.body.h])]
         IN  merge_from(k + 1, tile_data_, grid_size, tile_size, next)

merge_tiles(tile_data_, grid_size, tile_size) ==
    LET size == merged_size(grid_size, tile_size)
    IN  merge_from(1, tile_data_, grid_size, tile_size,
                   [w |-> size[1], h |-> size[2], pastes |-> << >>])

NoImage == [w |-> 0, h |-> 0, pastes |-> << >>]

\* the sizes a payload handed to merge_tiles can decode to: the tile size, or
\* one pixel more each way
TileImageSizes(tile_size) == {tile_size, <<tile_size[1] + 1, tile_size[2] + 1>>}

\* the values an entry of tile_data can take
TileEntries(tile_size) ==
    {None, Content(<<0, 0>>, Junk)}
        \cup {Content(<<0, 0>>, Png(sz[1], sz[2])) : sz \in TileImageSizes(tile_size)}

\* merge_tiles(tile_data, grid_size, tile_size) called and returning
merge_tiles_call ==
    /\ m_pc = "call"
    /\ m_image' = merge_tiles(m_data, m_grid, m_tile)
    /\ m_pc' = "done"
    /\ UNCHANGED <<m_grid, m_tile, m_data>>
    /\ UNCHANGED <<fetchVars, capVars, videoVars, resizeVars, genVars>>

-----------------------------------------------------------------------------
(* capture_tiles.main, capture_tiles.py:96-156 *)

\* lines 98-112
main_start ==
    /\ cap_pc = "start"
    /\ tile_data' = << >>
    /\ success_count' = 0
    /\ tile_idx' = 1
    /\ cap_pc' = "loop"
    /\ UNCHANGED <<merged_image, files, cap_ret, cap_exit>>
    /\ UNCHANGED <<fetchVars, mergeVars, videoVars, resizeVars, genVars>>

\* lines 114-117: next coordinate, download_tile(x, y, session)
main_for ==
    /\ cap_pc = "loop"
    /\ IF tile_idx <= Len(TILE_COORDS)
       THEN /\ dt_called(TILE_COORDS[tile_idx], DefaultMaxRetries)
            /\ cap_pc' = "download"
       ELSE /\ UNCHANGED fetchVars
            /\ cap_pc' = "check"
    /\ UNCHANGED <<tile_idx, tile_data, success_count, merged_image, files, cap_ret, cap_exit>>
    /\ UNCHANGED <<mergeVars, videoVars, resizeVars, genVars>>

\* lines 117-120: download_tile returned
main_tile_ok ==
    /\ cap_pc = "download"
    /\ dt_pc = "returned"
    /\ tile_data' = Append(tile_data, dt_ret)
    /\ success_count' = success_count + 1
    /\ tile_idx' = tile_idx + 1
    /\ cap_pc' = "loop"
    /\ dt_pc' = "idle"
    /\ UNCHANGED <<dt_url, max_retries, attempt, responses, slept, dt_ret, calls>>
    /\ UNCHANGED <<merged_image, files, cap_ret, cap_exit>>
    /\ UNCHANGED <<mergeVars, videoVars, resizeVars, genVars>>

\* lines 121-123 without line 123: the failed tile leaves no entry
main_tile_failed_no_entry ==
    /\ cap_pc = "download"
    /\ dt_pc = "raised"
    /\ tile_idx' = tile_idx + 1
    /\ cap_pc' = "loop"
    /\ dt_pc' = "idle"
    /\ UNCHANGED <<dt_url, max_retries, attempt, responses, slept, dt_ret, calls>>
    /\ UNCHANGED <<tile_data, success_count, merged_image, files, cap_ret, cap_exit>>
    /\ UNCHANGED <<mergeVars, videoVars, resizeVars, genVars>>

\* lines 121-123: download_tile raised
main_tile_failed ==
    /\ cap_pc = "download"
    /\ dt_pc = "raised"
    /\ tile_data' = Append(tile_data, None)
    /\ tile_idx' = tile_idx + 1
    /\ cap_pc' = "loop"
    /\ dt_pc' = "idle"
    /\ UNCHANGED <<dt_url, max_retries, attempt, responses, slept, dt_ret, calls>>
    /\ UNCHANGED <<success_count, merged_image, files, cap_ret, cap_exit>>
    /\ UNCHANGED <<mergeVars, videoVars, resizeVars, genVars>>

\* lines 125-127: return (None) when no tile was fetched
main_check ==
    /\ cap_pc = "check"
    /\ IF success_count = 0
       THEN cap_pc' = "done" /\ cap_ret' = "None"
       ELSE cap_pc' = "merge" /\ cap_ret' = cap_ret
    /\ UNCHANGED <<tile_idx, tile_data, success_count, merged_image, files, cap_exit>>
    /\ UNCHANGED <<fetchVars, mergeVars, videoVars, resizeVars, genVars>>

\* line 133
main_merge ==
    /\ cap_pc = "merge"
    /\ merged_image' = merge_tiles(tile_data, DefaultGridSize, DefaultTileSize)
    /\ cap_pc' = "save_image"
    /\ UNCHANGED <<tile_idx, tile_data, success_count, files, cap_ret, cap_exit>>
    /\ UNCHANGED <<fetchVars, mergeVars, videoVars, resizeVars, genVars>>

\* the state of main after one more output file is written
main_wrote(file, then) ==
    /\ files' = files \cup {file}
    /\ cap_pc' = then
    /\ UNCHANGED <<tile_idx, tile_data, success_count, merged_image, cap_ret, cap_exit>>
    /\ UNCHANGED <<fetchVars, mergeVars, videoVars, resizeVars, genVars>>

\* lines 136-137
main_save_image ==
    /\ cap_pc = "save_image"
    /\ main_wrote("images/wplace_T.png", "save_docs")

\* lines 140-141
main_save_docs ==
    /\ cap_pc = "save_docs"
    /\ main_wrote("docs/images/wplace_T.png", "save_latest")

\* lines 144-145
main_save_latest ==
    /\ cap_pc = "save_latest"
    /\ main_wrote("docs/latest.png", "save_metadata")

\* line 150, save_metadata lines 68-79
main_save_metadata ==
    /\ cap_pc = "save_metadata"
    /\ main_wrote("images/metadata_T.json", "update_latest_info")

\* line 151, update_latest_info lines 81-94
main_update_latest_info ==
    /\ cap_pc = "update_latest_info"
    /\ main_wrote("docs/latest.json", "end")

\* line 153: main falls off its end and returns None
main_return ==
    /\ cap_pc = "end"
    /\ cap_ret' = "None"
    /\ cap_pc' = "done"
    /\ UNCHANGED <<tile_idx, tile_data, success_count, merged_image, files, cap_exit>>
    /\ UNCHANGED <<fetchVars, mergeVars, videoVars, resizeVars, genVars>>

\* lines 155-156: the value of main() is dropped; the interpreter ends with
\* status 0
main_exit ==
    /\ cap_pc = "done"
    /\ cap_exit' = 0
    /\ cap_pc' = "exited"
    /\ UNCHANGED <<tile_idx, tile_data, success_count, merged_image, files, cap_ret>>
    /\ UNCHANGED <<fetchVars, mergeVars, videoVars, resizeVars, genVars>>

-----------------------------------------------------------------------------
(* Strings: a Python str is the sequence of its characters *)

\* the characters that occur in file names, in code point order
Alphabet ==
    <<".", "/", "0", "1", "2", "3", "4", "5", "6", "7", "8", "9", "_",
      "a", "b", "c", "d", "e", "f", "g", "h", "i", "j", "k", "l", "m",
      "n", "o", "p", "q", "r", "s", "t", "u", "v", "w", "x", "y", "z">>

\* position of a character in the code point order
Ord(c) == CHOOSE k \in 1..Len(Alphabet) : Alphabet[k] = c

\* a < b on str: the first differing character decides, a proper prefix is smaller
str_less(a, b) ==
    \/ \E k \in 1..Len(a) :
          /\ k <= Len(b)
          /\ \A j \in 1..(k - 1) : a[j] = b[j]
          /\ a[k] # b[k]
          /\ Ord(a[k]) < Ord(b[k])
    \/ /\ Len(a) < Len(b)
       /\ \A j \in 1..Len(a) : a[j] = b[j]

\* s[a:b] with 0 <= a <= b
Slice(s, a, b) ==
    LET hi == IF b < Len(s) THEN b ELSE Len(s)
    IN  IF a >= hi THEN << >> ELSE SubSeq(s, a + 1, hi)

\* s.split(sep) for a one-character sep
RECURSIVE Split(_, _)
Split(s, sep) ==
    LET at == {k \in 1..Len(s) : s[k] = sep}
    IN  IF at = {} THEN <<s>>
        ELSE LET k == CHOOSE x \in at : \A y \in at : x <= y
             IN  <<SubSeq(s, 1, k - 1)>> \o Split(SubSeq(s, k + 1, Len(s)), sep)

\* os.path.basename(path): what follows the last "/"
basename(path) ==
    LET parts == Split(path, "/")
    IN  parts[Len(parts)]

starts_with(s, prefix) == Len(s) >= Len(prefix) /\ SubSeq(s, 1, Len(prefix)) = prefix

ends_with(s, suffix) ==
    Len(s) >= Len(suffix) /\ SubSeq(s, Len(s) - Len(suffix) + 1, Len(s)) = suffix

-----------------------------------------------------------------------------
(* get_images_for_date, create_timelapse.py:29-61 *)

\* os.path.join(OUTPUT_DIR, date_str) + "/", for the day the run is about
DateFolder == <<"o", "u", "t", "p", "u", "t", "/", "2", "0", "2", "4", "0", "1", "0", "1", "/">>

\* the pattern of line 43, "merged_tiles_*.png": what stands before and after the star
PatternPrefix == <<"m", "e", "r", "g", "e", "d", "_", "t", "i", "l", "e", "s", "_">>
PatternSuffix == <<".", "p", "n", "g">>

\* file names a day's directory can hold
Name_0900 == <<"m", "e", "r", "g", "e", "d", "_", "t", "i", "l", "e", "s", "_", "2", "0", "2", "4", "0", "1", "0", "1", "_", "0", "9", "0", "0", "0", "0", ".", "p", "n", "g">>
Name_0800 == <<"m", "e", "r", "g", "e", "d", "_", "t", "i", "l", "e", "s", "_", "2", "0", "2", "4", "0", "1", "0", "1", "_", "0", "8", "0", "0", "0", "0", ".", "p", "n", "g">>
Name_1000 == <<"m", "e", "r", "g", "e", "d", "_", "t", "i", "l", "e", "s", "_", "2", "0", "2", "4", "0", "1", "0", "1", "_", "1", "0", "0", "0", "0", "0", ".", "p", "n", "g">>
Name_0800_b == <<"m", "e", "r", "g", "e", "d", "_", "t", "i", "l", "e", "s", "_", "2", "0", "2", "4", "0", "1", "0", "1", "_", "0", "8", "0", "0", "0", "0", "_", "b", ".", "p", "n", "g">>
Name_dotted == <<"m", "e", "r", "g", "e", "d", "_", "t", "i", "l", "e", "s", "_", "2", "0", "2", "4", "0", "1", "0", "1", "_", "0", "8", ".", "0", "0", ".", "p", "n", "g">>
Name_x == <<"m", "e", "r", "g", "e", "d", "_", "t", "i", "l", "e", "s", "_", "x", ".", "p", "n", "g">>
Name_star_empty == <<"m", "e", "r", "g", "e", "d", "_", "t", "i", "l", "e", "s", "_", ".", "p", "n", "g">>
Name_other == <<"x", ".", "p", "n", "g">>

FileNames ==
    {Name_0900, Name_0800, Name_1000, Name_0800_b, Name_dotted, Name_x,
     Name_star_empty, Name_other}

\* paths a caller can hand to create_timelapse_video directly
DirectPaths == {DateFolder \o n : n \in {Name_0900, Name_0800, Name_x, Name_other}}

\* fnmatch of a file name against merged_tiles_*.png
glob_match(name) ==
    /\ Len(name) >= Len(PatternPrefix) + Len(PatternSuffix)
    /\ starts_with(name, PatternPrefix)
    /\ ends_with(name, PatternSuffix)

\* the orders in which glob.glob can list the set S
Listings(S) ==
    {f \in [1..Cardinality(S) -> S] : \A i, j \in 1..Cardinality(S) : i # j => f[i] # f[j]}

\* lines 49-56
extract_timestamp_key(file_path) ==
    LET filename == basename(file_path)
        parts == Split(filename, "_")
    IN  IF Len(parts) >= 4
        THEN LET date_part == parts[3]
                 time_part == Split(parts[4], ".")[1]
             IN  date_part \o <<"_">> \o time_part
        ELSE filename

\* list.sort is stable: x goes behind every element whose key is not greater
RECURSIVE insert_by_key(_, _)
insert_by_key(sorted, x) ==
    IF sorted = << >> THEN <<x>>
    ELSE IF str_less(extract_timestamp_key(x), extract_timestamp_key(sorted[Len(sorted)]))
         THEN Append(insert_by_key(SubSeq(sorted, 1, Len(sorted) - 1), x), sorted[Len(sorted)])
         ELSE Append(sorted, x)

RECURSIVE sort_from(_, _, _)
sort_from(k, list, sorted) ==
    IF k > Len(list) THEN sorted
    ELSE sort_from(k + 1, list, insert_by_key(sorted, list[k]))

\* line 58 left out: the list stays in the order glob gave it
sort_by_key_skipped(list) == list

\* line 58: images.sort(key=extract_timestamp_key)
sort_by_key(list) == sort_from(1, list, << >>)

-----------------------------------------------------------------------------
(* create_timelapse_video, create_timelapse.py:162-229 *)

\* line 196
format_timestamp(date_part, time_part) ==
    Slice(date_part, 0, 4) \o <<"-">> \o Slice(date_part, 4, 6) \o <<"-">>
        \o Slice(date_part, 6, 8) \o <<" ">> \o Slice(time_part, 0, 2) \o <<":">>
        \o Slice(time_part, 2, 4) \o <<":">> \o Slice(time_part, 4, 6)

\* lines 190-198: the label of frame i (0-based) of image_path, or the
\* IndexError of parts[3] on a name of exactly three parts
frame_label(i, image_path) ==
    LET filename == basename(image_path)
        parts == Split(filename, "_")
    IN  IF Len(parts) >= 3
        THEN IF Len(parts) < 4
             THEN [kind |-> "IndexError", text |-> << >>, n |-> 0]
             ELSE [kind |-> "timestamp",
                   text |-> format_timestamp(parts[3], Split(parts[4], ".")[1]),
                   n |-> 0]
        ELSE [kind |-> "frame", text |-> << >>, n |-> i + 1]

\* what loading and composing a snapshot can do
FrameOutcomes == {"ok", "load_error", "compose_error"}

\* what constructing the cv2.VideoWriter can do: open the container, come
\* back unopened (with or without a file left at output_path), or raise
WriterOutcomes == {"opened", "unopened_no_file", "unopened_empty_file", "raise"}

NoFile == [exists |-> FALSE, frames |-> 0]

\* timelapse/latest.mp4: absent, the video of an earlier run, or a copy of this run's
NoLatest == [exists |-> FALSE, version |-> "none"]
OldLatest == [exists |-> TRUE, version |-> "old"]
NewLatest == [exists |-> TRUE, version |-> "new"]
\* the file shutil.copy2 has created at latest_path and not yet filled
PartialLatest == [exists |-> TRUE, version |-> "partial"]

\* what writing the copy can do once the destination is created
CopyOutcomes == {"copied", "OSError"}

\* lines 173-175
ctv_enter ==
    /\ v_pc = "ctv_enter"
    /\ IF images = << >>
       THEN ctv_ret' = "False" /\ v_pc' = "ctv_returned"
       ELSE ctv_ret' = ctv_ret /\ v_pc' = "ctv_open"
    /\ UNCHANGED <<entry, latest_before, dir_exists, directory, folder_images, images, frame_i,
                   frame_log, writer, written, release_count, out_file, latest,
                   readme, main_ret, v_exit>>
    /\ UNCHANGED <<fetchVars, capVars, mergeVars, resizeVars, genVars>>

\* lines 177-182, and 227-229 when the constructor raises
ctv_open ==
    /\ v_pc = "ctv_open"
    /\ \E outcome \in WriterOutcomes :
          /\ writer' = IF outcome = "opened" THEN "open"
                       ELSE IF outcome = "raise" THEN "none" ELSE "unopened"
          /\ out_file' = IF outcome \in {"opened", "unopened_empty_file"}
                         THEN [exists |-> TRUE, frames |-> 0]
                         ELSE out_file
          /\ ctv_ret' = IF outcome = "raise" THEN "False" ELSE ctv_ret
          /\ v_pc' = IF outcome = "raise" THEN "ctv_returned" ELSE "ctv_frames"
    /\ frame_i' = 0
    /\ UNCHANGED <<entry, latest_before, dir_exists, directory, folder_images, images,
                   frame_log, written, release_count, latest,
                   readme, main_ret, v_exit>>
    /\ UNCHANGED <<fetchVars, capVars, mergeVars, resizeVars, genVars>>

\* lines 218-220 ending the loop: the first failing snapshot ends the video
ctv_frame_break_on_error ==
    /\ v_pc = "ctv_frames"
    /\ frame_i < Len(images)
    /\ \E outcome \in FrameOutcomes :
          LET image_path == images[frame_i + 1]
              label == frame_label(frame_i, image_path)
              raised == outcome # "ok" \/ label.kind = "IndexError"
          IN  /\ frame_log' = Append(frame_log, outcome)
              /\ written' = IF raised THEN written
                            ELSE Append(written, [path |-> image_path, label |-> label])
              /\ out_file' = IF ~raised /\ writer = "open"
                             THEN [out_file EXCEPT !.frames = @ + 1]
                             ELSE out_file
              /\ frame_i' = IF raised THEN Len(images) ELSE frame_i + 1
    /\ UNCHANGED <<entry, latest_before, dir_exists, directory, folder_images, images,
                   writer, release_count, latest, readme, ctv_ret, main_ret,
                   v_exit, v_pc>>
    /\ UNCHANGED <<fetchVars, capVars, mergeVars, resizeVars, genVars>>

\* lines 184-220: one pass of the loop; an exception anywhere in the body is
\* logged and the loop goes on with the next snapshot
ctv_frame ==
    /\ v_pc = "ctv_frames"
    /\ frame_i < Len(images)
    /\ \E outcome \in FrameOutcomes :
          LET image_path == images[frame_i + 1]
              label == frame_label(frame_i, image_path)
              raised == outcome # "ok" \/ label.kind = "IndexError"
          IN  /\ frame_log' = Append(frame_log, outcome)
              /\ written' = IF raised THEN written
                            ELSE Append(written, [path |-> image_path, label |-> label])
              /\ out_file' = IF ~raised /\ writer = "open"
                             THEN [out_file EXCEPT !.frames = @ + 1]
                             ELSE out_file
    /\ frame_i' = frame_i + 1
    /\ UNCHANGED <<entry, latest_before, dir_exists, directory, folder_images, images,
                   writer, release_count, latest, readme, ctv_ret, main_ret,
                   v_exit, v_pc>>
    /\ UNCHANGED <<fetchVars, capVars, mergeVars, resizeVars, genVars>>

\* line 225 without line 223: the function returns True and the writer stays open
ctv_release_skipped ==
    /\ v_pc = "ctv_frames"
    /\ frame_i >= Len(images)
    /\ ctv_ret' = "True"
    /\ v_pc' = "ctv_returned"
    /\ UNCHANGED <<entry, latest_before, dir_exists, directory, folder_images, images, frame_i,
                   frame_log, writer, written, release_count, out_file, latest,
                   readme, main_ret, v_exit>>
    /\ UNCHANGED <<fetchVars, capVars, mergeVars, resizeVars, genVars>>

\* lines 222-225
ctv_release ==
    /\ v_pc = "ctv_frames"
    /\ frame_i >= Len(images)
    /\ release_count' = release_count + 1
    /\ writer' = "released"
    /\ ctv_ret' = "True"
    /\ v_pc' = "ctv_returned"
    /\ UNCHANGED <<entry, latest_before, dir_exists, directory, folder_images, images, frame_i,
                   frame_log, written, out_file, latest, readme, main_ret, v_exit>>
    /\ UNCHANGED <<fetchVars, capVars, mergeVars, resizeVars, genVars>>

-----------------------------------------------------------------------------
(* create_timelapse.main, create_timelapse.py:295-345 *)

\* lines 300-309: get_images_for_date(date_str), lines 39-61
vmain_list ==
    /\ v_pc = "main_start"
    /\ IF dir_exists
       THEN \E listing \in Listings({DateFolder \o n : n \in {m \in directory : glob_match(m)}}) :
               /\ folder_images' = listing
               /\ images' = sort_by_key(listing)
       ELSE /\ folder_images' = << >>
            /\ images' = sort_by_key(<< >>)
    /\ v_pc' = "main_check"
    /\ UNCHANGED <<entry, latest_before, dir_exists, directory, frame_i,
                   frame_log, writer, written, release_count, out_file, latest,
                   readme, ctv_ret, main_ret, v_exit>>
    /\ UNCHANGED <<fetchVars, capVars, mergeVars, resizeVars, genVars>>

\* lines 311-320
vmain_check ==
    /\ v_pc = "main_check"
    /\ IF images = << >>
       THEN main_ret' = "False" /\ v_pc' = "main_returned"
       ELSE main_ret' = main_ret /\ v_pc' = "ctv_enter"
    /\ folder_images' = << >>
    /\ UNCHANGED <<entry, latest_before, dir_exists, directory, images, frame_i,
                   frame_log, writer, written, release_count, out_file, latest,
                   readme, ctv_ret, v_exit>>
    /\ UNCHANGED <<fetchVars, capVars, mergeVars, resizeVars, genVars>>

\* lines 320-322, 339-341
vmain_after_video ==
    /\ v_pc = "ctv_returned"
    /\ entry = "main"
    /\ IF ctv_ret = "True"
       THEN main_ret' = main_ret /\ v_pc' = "remove_latest"
       ELSE main_ret' = "False" /\ v_pc' = "main_returned"
    /\ UNCHANGED <<entry, latest_before, dir_exists, directory, folder_images, images, frame_i,
                   frame_log, writer, written, release_count, out_file, latest,
                   readme, ctv_ret, v_exit>>
    /\ UNCHANGED <<fetchVars, capVars, mergeVars, resizeVars, genVars>>

\* lines 326-328
vmain_remove_latest ==
    /\ v_pc = "remove_latest"
    /\ latest' = IF latest.exists THEN NoLatest ELSE latest
    /\ v_pc' = "copy_latest"
    /\ UNCHANGED <<entry, latest_before, dir_exists, directory, folder_images, images, frame_i,
                   frame_log, writer, written, release_count, out_file,
                   readme, ctv_ret, main_ret, v_exit>>
    /\ UNCHANGED <<fetchVars, capVars, mergeVars, resizeVars, genVars>>

\* lines 331-332, first half: shutil.copy2 opens output_path, which raises
\* FileNotFoundError when there is no such file (nothing catches it and the
\* interpreter ends with status 1), and then creates latest_path empty
vmain_copy_latest ==
    /\ v_pc = "copy_latest"
    /\ IF out_file.exists
       THEN /\ latest' = PartialLatest
            /\ v_pc' = "copying"
            /\ v_exit' = v_exit
       ELSE /\ latest' = latest
            /\ v_pc' = "exited"
            /\ v_exit' = 1
    /\ UNCHANGED <<entry, latest_before, dir_exists, directory, folder_images, images, frame_i,
                   frame_log, writer, written, release_count, out_file,
                   readme, ctv_ret, main_ret>>
    /\ UNCHANGED <<fetchVars, capVars, mergeVars, resizeVars, genVars>>

\* line 332, second half: the bytes are written to latest_path; a write that
\* fails (disk full) raises OSError out of main and leaves what was written
vmain_copy_finish ==
    /\ v_pc = "copying"
    /\ \E outcome \in CopyOutcomes :
          IF outcome = "copied"
          THEN /\ latest' = NewLatest
               /\ v_pc' = "update_readme"
               /\ v_exit' = v_exit
          ELSE /\ latest' = latest
               /\ v_pc' = "exited"
               /\ v_exit' = 1
    /\ UNCHANGED <<entry, latest_before, dir_exists, directory, folder_images, images, frame_i,
                   frame_log, writer, written, release_count, out_file,
                   readme, ctv_ret, main_ret>>
    /\ UNCHANGED <<fetchVars, capVars, mergeVars, resizeVars, genVars>>

\* lines 326-332: the process is killed (or the machine stops) while main is
\* between the test of line 327 and the end of the copy of line 332; the
\* files stay as they are and no completion status of the script exists
vmain_crash ==
    /\ v_pc \in {"remove_latest", "copy_latest", "copying"}
    /\ v_pc' = "crashed"
    /\ UNCHANGED <<entry, latest_before, dir_exists, directory, folder_images, images, frame_i,
                   frame_log, writer, written, release_count, out_file, latest,
                   readme, ctv_ret, main_ret, v_exit>>
    /\ UNCHANGED <<fetchVars, capVars, mergeVars, resizeVars, genVars>>

\* lines 336-338: update_readme_with_timelapse_link (lines 231-293) rewrites
\* README.md, or logs its own error and leaves it
vmain_update_readme ==
    /\ v_pc = "update_readme"
    /\ \E done \in BOOLEAN : readme' = IF done THEN "new" ELSE readme
    /\ main_ret' = "True"
    /\ v_pc' = "main_returned"
    /\ UNCHANGED <<entry, latest_before, dir_exists, directory, folder_images, images, frame_i,
                   frame_log, writer, written, release_count, out_file, latest,
                   ctv_ret, v_exit>>
    /\ UNCHANGED <<fetchVars, capVars, mergeVars, resizeVars, genVars>>

\* lines 343-345
vmain_exit ==
    /\ v_pc = "main_returned"
    /\ v_exit' = IF main_ret = "True" THEN 0 ELSE 1
    /\ v_pc' = "exited"
    /\ UNCHANGED <<entry, latest_before, dir_exists, directory, folder_images, images, frame_i,
                   frame_log, writer, written, release_count, out_file, latest,
                   readme, ctv_ret, main_ret>>
    /\ UNCHANGED <<fetchVars, capVars, mergeVars, resizeVars, genVars>>

-----------------------------------------------------------------------------
(* Constants of create_timelapse.py used by resize_image_to_fit's caller *)

\* lines 23-24
VIDEO_WIDTH == 1920
VIDEO_HEIGHT == 1080

\* binary digits of the significand of a Python float
MantissaBits == 53

(* Python float arithmetic, as far as resize_image_to_fit uses it *)

\* A positive float is [m |-> bits, e |-> exponent]: m is the significand as
\* MantissaBits binary digits, most significant first and m[1] = 1, and the
\* value is m * 2^e.  Results are rounded to nearest, ties to even.  The
\* sizes of the model stay far below 2^MantissaBits, so no integer is lost
\* on its way into a float.

\* binary digits of the integer n >= 0, most significant first
RECURSIVE int_bits(_)
int_bits(n) == IF n = 0 THEN << >> ELSE Append(int_bits(n \div 2), n % 2)

\* the integer a sequence of binary digits stands for
RECURSIVE bits_value(_)
bits_value(b) ==
    IF b = << >> THEN 0
    ELSE 2 * bits_value(SubSeq(b, 1, Len(b) - 1)) + b[Len(b)]

\* the digits plus one; one digit longer when all digits were 1
bits_inc(b) ==
    IF \A i \in 1..Len(b) : b[i] = 1
    THEN <<1>> \o [i \in 1..Len(b) |-> 0]
    ELSE LET z == CHOOSE i \in 1..Len(b) :
                     b[i] = 0 /\ \A j \in (i + 1)..Len(b) : b[j] = 1
         IN  [i \in 1..Len(b) |-> IF i < z THEN b[i] ELSE IF i = z THEN 1 ELSE 0]

\* the digits of n written with exactly c digits (n < 2^c)
pad_bits(n, c) ==
    LET d == int_bits(n)
    IN  [i \in 1..(c - Len(d)) |-> 0] \o d

\* 2^n for n >= 0
RECURSIVE pow2(_)
pow2(n) == IF n = 0 THEN 1 ELSE 2 * pow2(n - 1)

\* the next k binary digits of r / b (0 <= r < b) and the remainder left;
\* long division, up to ten digits to a step
RECURSIVE division_bits(_, _, _)
division_bits(r, b, k) ==
    IF k <= 0 THEN [bits |-> << >>, rem |-> r]
    ELSE LET c == IF k < 10 THEN k ELSE 10
             t == r * pow2(c)
             rest == division_bits(t % b, b, k - c)
         IN  [bits |-> pad_bits(t \div b, c) \o rest.bits, rem |-> rest.rem]

\* the digits of n * (the integer b stands for) + carry; long
\* multiplication from the low end, up to ten digits to a step
RECURSIVE mul_bits(_, _, _)
mul_bits(b, n, carry) ==
    IF b = << >> THEN int_bits(carry)
    ELSE LET c == IF Len(b) < 10 THEN Len(b) ELSE 10
             t == n * bits_value(SubSeq(b, Len(b) - c + 1, Len(b))) + carry
         IN  mul_bits(SubSeq(b, 1, Len(b) - c), n, t \div pow2(c))
                 \o pad_bits(t % pow2(c), c)

\* digits (at least MantissaBits of them, the first one 1) standing for
\* digits * 2^e, with sticky telling of a non-zero rest below them, rounded
\* to a float
fl_round(digits, sticky, e) ==
    LET kept == SubSeq(digits, 1, MantissaBits)
        dropped == SubSeq(digits, MantissaBits + 1, Len(digits))
        half == dropped # << >> /\ dropped[1] = 1
        below == sticky \/ \E i \in 2..Len(dropped) : dropped[i] = 1
        up == half /\ (below \/ kept[MantissaBits] = 1)
        m == IF up THEN bits_inc(kept) ELSE kept
        e_kept == e + Len(dropped)
    IN  IF Len(m) > MantissaBits
        THEN [m |-> SubSeq(m, 1, MantissaBits), e |-> e_kept + 1]
        ELSE [m |-> m, e |-> e_kept]

\* the least s >= 0 with a * 2^s >= b
RECURSIVE shift_up(_, _)
shift_up(a, b) == IF a >= b THEN 0 ELSE 1 + shift_up(2 * a, b)

\* a / b of two positive ints (lines 78-79): true division, a float
fl_div(a, b) ==
    LET s == shift_up(a, b)
        A == a * pow2(s)
        whole == int_bits(A \div b)
        frac == division_bits(A % b, b, MantissaBits + 1 - Len(whole))
    IN  fl_round(whole \o frac.bits, frac.rem # 0, -s - Len(frac.bits))

\* n * x of a positive int and a float (lines 83-84): the exact product, rounded
fl_mul(n, x) == fl_round(mul_bits(x.m, n, 0), FALSE, x.e)

\* x < y of two floats
fl_less(x, y) ==
    \/ x.e < y.e
    \/ /\ x.e = y.e
       /\ \E i \in 1..MantissaBits :
             /\ x.m[i] < y.m[i]
             /\ \A j \in 1..(i - 1) : x.m[j] = y.m[j]

\* min(x, y) (line 80): the first argument unless the second is smaller
fl_min(x, y) == IF fl_less(y, x) THEN y ELSE x

\* int(x) of a float (lines 83-84): the digits above the binary point
fl_int(x) ==
    IF MantissaBits + x.e <= 0 THEN 0
    ELSE bits_value(SubSeq(x.m, 1, MantissaBits + x.e))

-----------------------------------------------------------------------------
(* resize_image_to_fit, create_timelapse.py:63-102 *)

\* lines 77-84: (new_width, new_height)
scaled_size(img_width, img_height, target_width, target_height) ==
    LET scale_w == fl_div(target_width, img_width)
        scale_h == fl_div(target_height, img_height)
        scale == fl_min(scale_w, scale_h)
    IN  <<fl_int(fl_mul(img_width, scale)), fl_int(fl_mul(img_height, scale))>>

\* what Image.resize does with a size that has a zero in it: the releases of
\* Pillow differ, it raises ValueError or it returns an image without pixels
ZeroSizeResize == {"ValueError", "empty_image"}

NoResult == [canvas |-> <<0, 0>>, box |-> <<0, 0, 0, 0>>, filter |-> "none", resampled |-> FALSE]

\* the sizes the function is called with: small ones of every shape, and the
\* canvas of the video
SourceSizes == (1..MaxSrc) \X (1..MaxSrc)
TargetSizes == ((1..MaxTarget) \X (1..MaxTarget)) \cup {<<VIDEO_WIDTH, VIDEO_HEIGHT>>}

\* lines 76-102.  Image.resize is given LANCZOS whatever the sizes are (line
\* 87); it hands back a plain copy when the size asked for is the size the
\* image has, and resamples otherwise.
resize_image_to_fit ==
    /\ r_pc = "call"
    /\ \E pil \in ZeroSizeResize :
          LET new == scaled_size(r_size[1], r_size[2], r_target[1], r_target[2])
              new_width == new[1]
              new_height == new[2]
              x == (r_target[1] - new_width) \div 2
              y == (r_target[2] - new_height) \div 2
          IN  IF (new_width = 0 \/ new_height = 0) /\ pil = "ValueError"
              THEN /\ r_pc' = "raised"
                   /\ r_ret' = NoResult
              ELSE /\ r_pc' = "returned"
                   /\ r_ret' = [canvas |-> r_target,
                                box |-> <<x, y, new_width, new_height>>,
                                filter |-> "LANCZOS",
                                resampled |-> new # r_size]
    /\ UNCHANGED <<r_size, r_target>>
    /\ UNCHANGED <<fetchVars, capVars, mergeVars, videoVars, genVars>>

-----------------------------------------------------------------------------
(* generate_timelapse.py *)

\* file names the directory images/ can hold
Snap_5 == <<"w", "p", "l", "a", "c", "e", "_", "5", ".", "p", "n", "g">>
Snap_7 == <<"w", "p", "l", "a", "c", "e", "_", "7", ".", "p", "n", "g">>
Snap_10 == <<"w", "p", "l", "a", "c", "e", "_", "1", "0", ".", "p", "n", "g">>
Snap_x == <<"w", "p", "l", "a", "c", "e", "_", "x", ".", "p", "n", "g">>
Snap_plain == <<"w", "p", "l", "a", "c", "e", ".", "p", "n", "g">>

SnapshotNames == {Snap_5, Snap_7, Snap_10, Snap_x, Snap_plain}

\* IMAGES_DIR + "/", line 13 and the pattern of line 18
ImagesFolder == <<"i", "m", "a", "g", "e", "s", "/">>

\* the pattern of line 18, "wplace_*.png": what stands before and after the star
SnapPrefix == <<"w", "p", "l", "a", "c", "e", "_">>
SnapSuffix == <<".", "p", "n", "g">>

\* line 19: fnmatch of a name of images/ against wplace_*.png
snap_match(name) ==
    /\ Len(name) >= Len(SnapPrefix) + Len(SnapSuffix)
    /\ starts_with(name, SnapPrefix)
    /\ ends_with(name, SnapSuffix)

DigitChars == <<"0", "1", "2", "3", "4", "5", "6", "7", "8", "9">>

RECURSIVE digits_value(_)
digits_value(s) ==
    IF s = << >> THEN 0
    ELSE 10 * digits_value(SubSeq(s, 1, Len(s) - 1))
            + (CHOOSE d \in 1..10 : DigitChars[d] = s[Len(s)]) - 1

\* int(s) of a str of the kind the names have: the number the decimal digits
\* spell, ValueError on anything else
int_of(s) ==
    IF s # << >> /\ \A i \in 1..Len(s) : \E d \in 1..10 : DigitChars[d] = s[i]
    THEN [ok |-> TRUE, value |-> digits_value(s)]
    ELSE [ok |-> FALSE, value |-> 0]

\* the key of line 22
snapshot_key(path) == int_of(Split(Split(basename(path), "_")[2], ".")[1])

\* list.sort is stable: x goes behind every element whose key is not greater
RECURSIVE insert_by_int_key(_, _)
insert_by_int_key(sorted, x) ==
    IF sorted = << >> THEN <<x>>
    ELSE IF snapshot_key(x).value < snapshot_key(sorted[Len(sorted)]).value
         THEN Append(insert_by_int_key(SubSeq(sorted, 1, Len(sorted) - 1), x), sorted[Len(sorted)])
         ELSE Append(sorted, x)

RECURSIVE sort_snapshots_from(_, _, _)
sort_snapshots_from(k, list, sorted) ==
    IF k > Len(list) THEN sorted
    ELSE sort_snapshots_from(k + 1, list, insert_by_int_key(sorted, list[k]))

\* lines 16-24 on what glob.glob listed: the sorted list, or the ValueError
\* of int() on the first name that has no number
get_image_list(listing) ==
    IF \E i \in 1..Len(listing) : ~snapshot_key(listing[i]).ok
    THEN [raised |-> TRUE, images |-> << >>]
    ELSE [raised |-> FALSE, images |-> sort_snapshots_from(1, listing, << >>)]

\* the paths glob.glob finds in images/
SnapshotPaths == {ImagesFolder \o n : n \in {m \in g_dir : snap_match(m)}}

\* what create_image_list_file has returned
NotReturned == [kind |-> "unset", frame_count |-> 0]
ReturnedNone == [kind |-> "None", frame_count |-> 0]
ReturnedPair(n) == [kind |-> "tuple", frame_count |-> n]

NoInfo == [written |-> FALSE, total_frames |-> 0, has_video |-> FALSE, has_gif |-> FALSE]

\* what subprocess.run of ffmpeg can do (lines 76-96)
FfmpegOutcomes == {"rc0_with_file", "rc0_no_file", "rc_nonzero", "FileNotFoundError", "Exception"}

\* what create_timelapse_fallback can do (lines 100-141)
FallbackOutcomes == {"gif_saved", "no_frames", "ImportError", "Exception"}

\* lines 170-173, 53 (the call) and create_image_list_file, lines 26-49
gen_create_image_list_file ==
    /\ g_pc = "main_start"
    /\ \E listing \in Listings(SnapshotPaths) :
          LET listed == get_image_list(listing)
              images_ == listed.images
          IN  IF listed.raised
              THEN /\ g_raised' = "ValueError"
                   /\ g_pc' = "exited"
                   /\ g_exit' = 1
                   /\ UNCHANGED <<g_list_ret, g_docs>>
              ELSE IF Len(images_) < 2
              THEN /\ g_list_ret' = ReturnedNone
                   /\ g_pc' = "unpack"
                   /\ UNCHANGED <<g_raised, g_exit, g_docs>>
              ELSE /\ g_list_ret' = ReturnedPair(Len(images_))
                   /\ g_docs' = [g_docs EXCEPT !.list_file = TRUE,
                                               !.images = @ \cup {basename(images_[i]) : i \in 1..Len(images_)}]
                   /\ g_pc' = "unpack"
                   /\ UNCHANGED <<g_raised, g_exit>>
    /\ UNCHANGED <<g_dir, g_info, g_ffmpeg_runs, g_ret>>
    /\ UNCHANGED <<fetchVars, capVars, mergeVars, videoVars, resizeVars>>

\* lines 53-56: the assignment unpacks what create_image_list_file returned;
\* None cannot be unpacked, the TypeError is raised outside the try of line
\* 61 and main (168-181) has no handler, so the interpreter ends with status
\* 1.  A pair has a non-empty list_file, so line 56 is never reached.
gen_unpack ==
    /\ g_pc = "unpack"
    /\ IF g_list_ret.kind = "None"
       THEN /\ g_raised' = "TypeError"
            /\ g_pc' = "exited"
            /\ g_exit' = 1
       ELSE /\ g_raised' = g_raised
            /\ g_pc' = "ffmpeg"
            /\ g_exit' = g_exit
    /\ UNCHANGED <<g_dir, g_list_ret, g_docs, g_info, g_ffmpeg_runs, g_ret>>
    /\ UNCHANGED <<fetchVars, capVars, mergeVars, videoVars, resizeVars>>

\* lines 58-96
gen_ffmpeg ==
    /\ g_pc = "ffmpeg"
    /\ \E outcome \in FfmpegOutcomes :
          /\ g_ffmpeg_runs' = g_ffmpeg_runs + 1
          /\ g_docs' = IF outcome = "rc0_with_file"
                       THEN [g_docs EXCEPT !.mp4 = "new"]
                       ELSE g_docs
          /\ g_ret' = IF outcome \in {"rc0_with_file", "rc0_no_file"} THEN "True"
                      ELSE IF outcome = "FileNotFoundError" THEN g_ret
                      ELSE "False"
          /\ g_pc' = IF outcome = "FileNotFoundError" THEN "fallback" ELSE "update_info"
    /\ UNCHANGED <<g_dir, g_list_ret, g_info, g_raised, g_exit>>
    /\ UNCHANGED <<fetchVars, capVars, mergeVars, videoVars, resizeVars>>

\* lines 93, 98-141
gen_fallback ==
    /\ g_pc = "fallback"
    /\ \E outcome \in FallbackOutcomes :
          /\ g_docs' = IF outcome = "gif_saved"
                       THEN [g_docs EXCEPT !.gif = "new"]
                       ELSE g_docs
          /\ g_ret' = IF outcome = "gif_saved" THEN "True" ELSE "False"
    /\ g_pc' = "update_info"
    /\ UNCHANGED <<g_dir, g_list_ret, g_info, g_ffmpeg_runs, g_raised, g_exit>>
    /\ UNCHANGED <<fetchVars, capVars, mergeVars, videoVars, resizeVars>>

\* lines 175-181 and update_timelapse_info, lines 143-166
gen_update_timelapse_info ==
    /\ g_pc = "update_info"
    /\ \E listing \in Listings(SnapshotPaths) :
          LET listed == get_image_list(listing)
          IN  IF listed.raised
              THEN /\ g_raised' = "ValueError"
                   /\ g_pc' = "exited"
                   /\ g_exit' = 1
                   /\ g_info' = g_info
              ELSE /\ g_info' = [written |-> TRUE,
                                 total_frames |-> Len(listed.images),
                                 has_video |-> g_docs.mp4 # "absent",
                                 has_gif |-> g_docs.gif # "absent"]
                   /\ g_pc' = "main_done"
                   /\ UNCHANGED <<g_raised, g_exit>>
    /\ UNCHANGED <<g_dir, g_list_ret, g_docs, g_ffmpeg_runs, g_ret>>
    /\ UNCHANGED <<fetchVars, capVars, mergeVars, videoVars, resizeVars>>

\* lines 183-184: main returned, the script ends with status 0
gen_exit ==
    /\ g_pc = "main_done"
    /\ g_exit' = 0
    /\ g_pc' = "exited"
    /\ UNCHANGED <<g_dir, g_list_ret, g_docs, g_info, g_ffmpeg_runs, g_ret, g_raised>>
    /\ UNCHANGED <<fetchVars, capVars, mergeVars, videoVars, resizeVars>>

-----------------------------------------------------------------------------
(* Specifications *)

vars == <<fetchVars, capVars, mergeVars, videoVars, resizeVars, genVars>>

FetchIdle ==
    /\ dt_pc = "idle"
    /\ dt_url = <<0, 0>>
    /\ max_retries = 0
    /\ attempt = 0
    /\ responses = << >>
    /\ slept = << >>
    /\ dt_ret = None
    /\ calls = << >>

CapIdle(pc) ==
    /\ cap_pc = pc
    /\ tile_idx = 0
    /\ tile_data = << >>
    /\ success_count = 0
    /\ merged_image = NoImage
    /\ files = {}
    /\ cap_ret = "running"
    /\ cap_exit = "running"

MergeIdle ==
    /\ m_pc = "idle"
    /\ m_grid = <<0, 0>>
    /\ m_tile = <<0, 0>>
    /\ m_data = << >>
    /\ m_image = NoImage

VideoIdle ==
    /\ entry = "none"
    /\ dir_exists = FALSE
    /\ directory = {}
    /\ folder_images = << >>
    /\ images = << >>
    /\ v_pc = "idle"
    /\ frame_i = 0
    /\ frame_log = << >>
    /\ writer = "none"
    /\ written = << >>
    /\ release_count = 0
    /\ out_file = NoFile
    /\ latest = NoLatest
    /\ latest_before = NoLatest
    /\ readme = "old"
    /\ ctv_ret = "none"
    /\ main_ret = "none"
    /\ v_exit = "running"

ResizeIdle ==
    /\ r_pc = "idle"
    /\ r_size = <<0, 0>>
    /\ r_target = <<0, 0>>
    /\ r_ret = NoResult

GenerateIdle ==
    /\ g_pc = "idle"
    /\ g_dir = {}
    /\ g_list_ret = NotReturned
    /\ g_docs = [list_file |-> FALSE, images |-> {}, mp4 |-> "absent", gif |-> "absent"]
    /\ g_info = NoInfo
    /\ g_ffmpeg_runs = 0
    /\ g_ret = "none"
    /\ g_raised = "none"
    /\ g_exit = "running"

\* download_tile(x, y, session, m) called on its own
InitFetch ==
    /\ ResizeIdle
    /\ GenerateIdle
    /\ CapIdle("harness")
    /\ MergeIdle
    /\ VideoIdle
    /\ dt_pc = "for"
    /\ dt_url \in {TILE_COORDS[k] : k \in 1..Len(TILE_COORDS)}
    /\ max_retries \in 0..MaxRetries
    /\ attempt = 0
    /\ responses = << >>
    /\ slept = << >>
    /\ dt_ret = None
    /\ calls = <<[url |-> dt_url, outcome |-> "running", ret |-> None]>>

NextFetch ==
    \/ dt_for
    \/ dt_get_ok
    \/ dt_get_fail

SpecFetch == InitFetch /\ [][NextFetch]_vars

\* merge_tiles(tile_data, grid_size, tile_size) called on its own
InitMerge ==
    /\ ResizeIdle
    /\ GenerateIdle
    /\ FetchIdle
    /\ CapIdle("harness")
    /\ VideoIdle
    /\ m_pc = "call"
    /\ m_grid \in (1..MaxCols) \X (1..MaxRows)
    /\ m_tile \in (1..MaxTile) \X (1..MaxTile)
    /\ m_data \in UNION {[1..n -> TileEntries(m_tile)] : n \in 0..MaxTiles}
    /\ m_image = NoImage

NextMerge == merge_tiles_call

SpecMerge == InitMerge /\ [][NextMerge]_vars

\* one run of create_timelapse.py over a day's directory, or one call of
\* create_timelapse_video(images, output_path) on its own
InitVideo ==
    /\ ResizeIdle
    /\ GenerateIdle
    /\ FetchIdle
    /\ CapIdle("harness")
    /\ MergeIdle
    /\ entry \in {"main", "direct"}
    /\ dir_exists \in BOOLEAN
    /\ directory \in {d \in SUBSET FileNames : Cardinality(d) <= MaxFiles}
    /\ entry = "direct" => (~dir_exists /\ directory = {})
    /\ ~dir_exists => directory = {}
    /\ folder_images = << >>
    /\ IF entry = "direct"
       THEN /\ images \in UNION {Listings(S) : S \in {T \in SUBSET DirectPaths : Cardinality(T) <= MaxFiles}}
            /\ v_pc = "ctv_enter"
            /\ latest = NoLatest
       ELSE /\ images = << >>
            /\ v_pc = "main_start"
            /\ latest \in {NoLatest, OldLatest}
    /\ latest_before = latest
    /\ frame_i = 0
    /\ frame_log = << >>
    /\ writer = "none"
    /\ written = << >>
    /\ release_count = 0
    /\ out_file = NoFile
    /\ readme = "old"
    /\ ctv_ret = "none"
    /\ main_ret = "none"
    /\ v_exit = "running"

NextVideo ==
    \/ vmain_list
    \/ vmain_check
    \/ ctv_enter
    \/ ctv_open
    \/ ctv_frame
    \/ ctv_release
    \/ vmain_after_video
    \/ vmain_remove_latest
    \/ vmain_copy_latest
    \/ vmain_copy_finish
    \/ vmain_crash
    \/ vmain_update_readme
    \/ vmain_exit

SpecVideo == InitVideo /\ [][NextVideo]_vars

\* resize_image_to_fit(image, target_width, target_height) called on its own
InitResize ==
    /\ FetchIdle
    /\ CapIdle("harness")
    /\ MergeIdle
    /\ VideoIdle
    /\ GenerateIdle
    /\ r_pc = "call"
    /\ r_size \in SourceSizes
    /\ r_target \in TargetSizes
    /\ r_ret = NoResult

NextResize == resize_image_to_fit

SpecResize == InitResize /\ [][NextResize]_vars

\* one run of generate_timelapse.py over what images/ and docs/ hold
InitGenerate ==
    /\ FetchIdle
    /\ CapIdle("harness")
    /\ MergeIdle
    /\ VideoIdle
    /\ ResizeIdle
    /\ g_pc = "main_start"
    /\ g_dir \in {d \in SUBSET SnapshotNames : Cardinality(d) <= MaxSnapshots}
    /\ g_list_ret = NotReturned
    /\ g_docs \in [list_file : {FALSE}, images : {{}},
                   mp4 : {"absent", "old"}, gif : {"absent", "old"}]
    /\ g_info = NoInfo
    /\ g_ffmpeg_runs = 0
    /\ g_ret = "none"
    /\ g_raised = "none"
    /\ g_exit = "running"

NextGenerate ==
    \/ gen_create_image_list_file
    \/ gen_unpack
    \/ gen_ffmpeg
    \/ gen_fallback
    \/ gen_update_timelapse_info
    \/ gen_exit

SpecGenerate == InitGenerate /\ [][NextGenerate]_vars

\* one run of capture_tiles.py
Init ==
    /\ ResizeIdle
    /\ GenerateIdle
    /\ CapIdle("start")
    /\ FetchIdle
    /\ MergeIdle
    /\ VideoIdle

Next ==
    \/ main_start
    \/ main_for
    \/ dt_for
    \/ dt_get_ok
    \/ dt_get_fail
    \/ main_tile_ok
    \/ main_tile_failed
    \/ main_check
    \/ main_merge
    \/ main_save_image
    \/ main_save_docs
    \/ main_save_latest
    \/ main_save_metadata
    \/ main_update_latest_info
    \/ main_return
    \/ main_exit

Spec == Init /\ [][Next]_vars

-----------------------------------------------------------------------------
(* Properties *)

\* the first n GETs of the call all failed
FailedBefore(n) == \A k \in 1..n : ~responses[k].ok

\* C1: for max_retries >= 1, download_tile makes its GETs one after another,
\* stops at the first success, never makes more than max_retries of them,
\* returns the content of the first successful GET, and raises exactly when
\* all max_retries GETs failed.
C1_BoundedRetry ==
    max_retries >= 1 =>
        /\ Len(responses) <= max_retries
        /\ FailedBefore(Len(responses) - 1)
        /\ dt_pc = "returned" =>
              /\ Len(responses) >= 1
              /\ responses[Len(responses)].ok
              /\ dt_ret = responses[Len(responses)].content
              /\ dt_ret.kind = "bytes"
              /\ dt_ret.url = dt_url
        /\ dt_pc = "raised" <=>
              (Len(responses) = max_retries /\ FailedBefore(max_retries))
        /\ dt_pc \in {"for", "try"} =>
              /\ FailedBefore(Len(responses))
              /\ Len(responses) = attempt
              /\ attempt < max_retries

\* max_retries-1 failures, then a success whose bytes are returned
C1_Witness ==
    /\ dt_pc = "returned"
    /\ max_retries >= 3
    /\ Len(responses) = max_retries
    /\ FailedBefore(max_retries - 1)
    /\ dt_ret = responses[max_retries].content

\* C2: the delays of one call are 1, 2, 4, ... (the k-th failed attempt,
\* counted from 0, is followed by 2^k seconds), and a delay stands only
\* between two attempts: before an attempt there are as many delays as failed
\* attempts, after the call ended there is one delay less than attempts.
C2_Backoff ==
    /\ \A k \in 1..Len(slept) : slept[k] = IF k = 1 THEN 1 ELSE 2 * slept[k - 1]
    /\ dt_pc \in {"for", "try"} => Len(slept) = Len(responses)
    /\ (dt_pc \in {"returned", "raised"} /\ Len(responses) >= 1) =>
          Len(slept) = Len(responses) - 1
    /\ (dt_pc \in {"returned", "raised"} /\ Len(responses) = 0) => Len(slept) = 0

\* three failures, delays 1, 2, 4, then the call ends without a further delay
C2_Witness ==
    /\ dt_pc \in {"returned", "raised"}
    /\ Len(responses) = 4
    /\ slept = <<1, 2, 4>>

\* the entries of tile_data that are not None
Fetched == {i \in 1..Len(tile_data) : tile_data[i] # None}

\* C3: in capture_tiles.main the coordinates of TILE_COORDS are handed to
\* download_tile once each, in list order; a call that raised leaves None at
\* its position and the loop goes on; after the loop tile_data has one entry
\* per coordinate, entry i the result for TILE_COORDS[i], and success_count
\* counts the entries that are not None.
C3_EveryTileAttempted ==
    /\ Len(calls) <= Len(TILE_COORDS)
    /\ \A i \in 1..Len(calls) : calls[i].url = TILE_COORDS[i]
    /\ Len(tile_data) <= Len(calls)
    /\ Len(calls) <= Len(tile_data) + 1
    /\ \A i \in 1..Len(tile_data) :
          /\ calls[i].outcome \in {"returned", "raised"}
          /\ calls[i].outcome = "raised" => tile_data[i] = None
          /\ calls[i].outcome = "returned" =>
                (tile_data[i] = calls[i].ret /\ tile_data[i].url = TILE_COORDS[i])
    /\ success_count = Cardinality(Fetched)
    /\ cap_pc \notin {"start", "loop", "download"} =>
          (Len(tile_data) = Len(TILE_COORDS) /\ Len(calls) = Len(TILE_COORDS))

\* the loop is over, the first tile exhausted its retries, a later one came
\* and the last one failed again
C3_Witness ==
    /\ cap_pc = "check"
    /\ tile_data[1] = None
    /\ tile_data[2] # None
    /\ tile_data[Len(TILE_COORDS)] = None
    /\ success_count = 3

\* C4 (as claimed): a cycle that fetched no tile ends with a non-zero status
\* and has written no output file.
C4_ZeroTilesIsFailure ==
    (cap_pc = "exited" /\ success_count = 0) => (cap_exit # 0 /\ files = {})

\* the part of C4 the code keeps: a cycle that fetched no tile writes no file
C4_ZeroTilesNoOutput ==
    (cap_pc \in {"done", "exited"} /\ success_count = 0) => files = {}

\* a run's status and return value do not tell a cycle without tiles from
\* one with tiles
C4_SameStatusEitherWay ==
    cap_pc = "exited" => (cap_exit = 0 /\ cap_ret = "None")

\* C5: merge_tiles returns an image of columns*tile_w by rows*tile_h whatever
\* the entries of tile_data are (absent, undecodable, of any size, more or
\* fewer than the grid has cells).
C5_MergedSize ==
    m_pc = "done" =>
        /\ m_image.w = m_grid[1] * m_tile[1]
        /\ m_image.h = m_grid[2] * m_tile[2]

\* a 2 x 1 grid of 1 x 2 tiles, with an absent and an undecodable entry
C5_Witness ==
    /\ m_pc = "done"
    /\ m_grid = <<2, 1>>
    /\ m_tile = <<1, 2>>
    /\ \E i \in 1..Len(m_data) : m_data[i] = None
    /\ \E i \in 1..Len(m_data) : m_data[i] # None /\ ~decodable(m_data[i])
    /\ m_image.w = 2 /\ m_image.h = 2

\* the pixels of the merged image
Pixels == (0..(m_image.w - 1)) \X (0..(m_image.h - 1))

\* the cell of the grid that belongs to list index i (0-based)
CellX(i) == (i % m_grid[1]) * m_tile[1]
CellY(i) == (i \div m_grid[1]) * m_tile[2]
Cell(i) == (CellX(i)..(CellX(i) + m_tile[1] - 1)) \X (CellY(i)..(CellY(i) + m_tile[2] - 1))

\* the list index whose tile a pixel shows after all pastes (paste clips to
\* the image and a later paste covers an earlier one), -1 for background
Owner(px) ==
    LET hits == {k \in 1..Len(m_image.pastes) :
                    LET p == m_image.pastes[k]
                    IN  /\ p.x <= px[1] /\ px[1] < p.x + p.w
                        /\ p.y <= px[2] /\ px[2] < p.y + p.h}
    IN  IF hits = {} THEN -1
        ELSE m_image.pastes[CHOOSE k \in hits : \A l \in hits : l <= k].i

\* the list indices that have a cell in the grid
GridIndices == {i \in 0..(Len(m_data) - 1) : i < m_grid[1] * m_grid[2]}

\* the list indices whose entry holds bytes that decode
Decoded == {i \in 0..(Len(m_data) - 1) : m_data[i + 1] # None /\ decodable(m_data[i + 1])}

\* every decodable entry is pasted once, in list order, its top-left corner at
\* (col*tile_w, row*tile_h), row = i div columns, col = i mod columns
PastedAtCells ==
    /\ Len(m_image.pastes) = Cardinality(Decoded)
    /\ \A k \in 1..Len(m_image.pastes) :
          LET p == m_image.pastes[k]
          IN  /\ p.i \in Decoded
              /\ p.x = CellX(p.i) /\ p.y = CellY(p.i)
              /\ p.w = m_data[p.i + 1].body.w /\ p.h = m_data[p.i + 1].body.h
              /\ \A l \in 1..(k - 1) : m_image.pastes[l].i < p.i

\* the cells of distinct grid indices are disjoint and inside the image
CellsDisjoint ==
    \A i \in 0..(m_grid[1] * m_grid[2] - 1) :
        /\ Cell(i) \subseteq Pixels
        /\ \A j \in 0..(m_grid[1] * m_grid[2] - 1) : i # j => Cell(i) \cap Cell(j) = {}

\* no decoded tile is larger than the tile size
NoOversizedTile ==
    \A i \in Decoded : m_data[i + 1].body.w <= m_tile[1] /\ m_data[i + 1].body.h <= m_tile[2]

Matching == {DateFolder \o n : n \in {m \in directory : glob_match(m)}}

\* the ordering key of a snapshot as the claim states it: date part, "_",
\* time part (the fourth part up to its first dot) when the name has them,
\* the raw file name when it has not
KeyOf(path) ==
    LET name == basename(path)
        parts == Split(name, "_")
    IN  IF Len(parts) < 4 THEN name
        ELSE parts[3] \o <<"_">> \o Split(parts[4], ".")[1]

\* C7: get_images_for_date returns every matching snapshot of the day's
\* directory exactly once, ascending by the key date_part_time_part of its
\* name, a name without these parts taking part with its raw file name as
\* key; the 09:00, 08:00, 10:00 snapshots come back as 08:00, 09:00, 10:00.
C7_ListedInKeyOrder ==
    (entry = "main" /\ v_pc = "main_check") =>
        /\ Len(images) = Cardinality(Matching)
        /\ {images[i] : i \in 1..Len(images)} = Matching
        /\ \A i, j \in 1..Len(images) :
              i < j => ~str_less(KeyOf(images[j]), KeyOf(images[i]))
        /\ directory = {Name_0900, Name_0800, Name_1000} =>
              images = <<DateFolder \o Name_0800, DateFolder \o Name_0900,
                         DateFolder \o Name_1000>>

\* glob listed 09:00, 08:00, 10:00 and the list came back 08:00, 09:00, 10:00
C7_Witness ==
    /\ entry = "main"
    /\ v_pc = "main_check"
    /\ folder_images = <<DateFolder \o Name_0900, DateFolder \o Name_0800,
                         DateFolder \o Name_1000>>
    /\ images = <<DateFolder \o Name_0800, DateFolder \o Name_0900,
                  DateFolder \o Name_1000>>

\* a name without date and time parts, listed first by glob, is returned and
\* stands behind the snapshots with numeric keys
C7_WitnessMalformed ==
    /\ entry = "main"
    /\ v_pc = "main_check"
    /\ folder_images = <<DateFolder \o Name_x, DateFolder \o Name_0900,
                         DateFolder \o Name_0800>>
    /\ images = <<DateFolder \o Name_0800, DateFolder \o Name_0900,
                  DateFolder \o Name_x>>

\* the body of the loop raised on snapshot i (1-based): loading or composing
\* failed, or the label could not be derived (parts[3] of a three-part name)
FrameFailed(i) ==
    \/ frame_log[i] # "ok"
    \/ Len(Split(basename(images[i]), "_")) = 3

\* the first n snapshots without the failed ones, in list order
RECURSIVE Kept(_)
Kept(n) ==
    IF n = 0 THEN << >>
    ELSE IF FrameFailed(n) THEN Kept(n - 1) ELSE Append(Kept(n - 1), images[n])

\* C8: the frames handed to the encoder are the snapshots of the input list,
\* in its order, without those on which the loop body raised; a failure is
\* absorbed and the later snapshots are still processed, so that a call
\* that returns True has gone through the whole list.
C8_FramesInListOrder ==
    /\ Len(frame_log) <= Len(images)
    /\ v_pc = "ctv_frames" => frame_i = Len(frame_log)
    /\ [k \in 1..Len(written) |-> written[k].path] = Kept(Len(frame_log))
    /\ ctv_ret = "True" => Len(frame_log) = Len(images)

\* three snapshots, the second fails to load, the first and third are written
C8_Witness ==
    /\ ctv_ret = "True"
    /\ frame_log = <<"ok", "load_error", "ok">>
    /\ Len(written) = 2
    /\ written[1].path = images[1]
    /\ written[2].path = images[3]

\* C9 (as claimed): a snapshot whose name has no date and time parts, and
\* that loads and composes, is written as a frame labelled 'Frame N', N its
\* 1-based position.
C9_MalformedNameGetsFrameLabel ==
    \A i \in 1..Len(frame_log) :
        (entry = "main" /\ frame_log[i] = "ok"
            /\ Len(Split(basename(images[i]), "_")) < 4) =>
            \E k \in 1..Len(written) :
                /\ written[k].path = images[i]
                /\ written[k].label.kind = "frame"
                /\ written[k].label.n = i

\* what the code does on such names: fewer than three parts get the label,
\* exactly three parts raise and the snapshot is dropped
C9_ThreePartNameDropped ==
    \A i \in 1..Len(frame_log) :
        Len(Split(basename(images[i]), "_")) = 3 =>
            \A k \in 1..Len(written) : written[k].path # images[i]

\* C10 (as claimed): a run in which no frame reached the video is a failure:
\* create_timelapse_video returns False, main leaves latest.mp4 and the
\* README alone and the process ends with a non-zero status.
C10_NoFrameIsFailure ==
    /\ (v_pc = "ctv_returned" /\ entry = "main" /\ out_file.frames = 0) =>
          ctv_ret = "False"
    /\ (v_pc = "exited" /\ entry = "main" /\ out_file.frames = 0) =>
          (latest.version # "new" /\ readme = "old" /\ v_exit # 0)

\* the case of C10 the code does treat as a failure: an empty list
C10_EmptyListIsFailure ==
    (v_pc \in {"ctv_returned", "exited"} /\ images = << >>) =>
        (ctv_ret # "True" /\ latest.version # "new" /\ readme = "old"
            /\ (v_pc = "exited" => v_exit = 1))


\* create_timelapse_video has returned
VideoReturned == ctv_ret # "none"

\* the writer of line 180 exists: the constructor came back without raising
WriterConstructed == writer # "none"

\* C11: when create_timelapse_video has constructed its writer, the writer is
\* released exactly once by the time the function returns, whatever frames
\* failed; it is never released more than once; no frame is handed to the
\* writer before it is constructed, and after the release no frame is handed
\* to it, the file gets no further frame and there is no second release.
C11_ReleasedExactlyOnce ==
    /\ [](/\ release_count <= 1
          /\ (release_count = 1) <=> (writer = "released")
          /\ ~WriterConstructed => (written = << >> /\ out_file.frames = 0)
          /\ (VideoReturned /\ WriterConstructed) => (release_count = 1 /\ ctv_ret = "True")
          /\ (VideoReturned /\ ~WriterConstructed) => ctv_ret = "False"
          /\ writer = "released" => VideoReturned)
    /\ [][writer = "released" =>
             (written' = written /\ out_file' = out_file /\ release_count' = release_count)]_vars

\* the writer was opened, one snapshot failed and a later one was written,
\* and the function has returned with the writer released once
C11_Witness ==
    /\ v_pc = "ctv_returned"
    /\ writer = "released"
    /\ release_count = 1
    /\ Len(frame_log) >= 2
    /\ frame_log[1] # "ok"
    /\ Len(written) >= 1
    /\ out_file.frames = Len(written)


\* the script is over: it ended with a status, or it was killed
VideoEnded == v_pc \in {"exited", "crashed"}

\* C12 (as claimed): however a run of create_timelapse.main ends, by itself
\* or by a crash during the update of timelapse/latest.mp4, latest.mp4 is a
\* complete video, the previous one or the new one: it is never a partly
\* written file, and it is never missing when it was there before the run.
C12_LatestStaleOrNew ==
    (entry = "main" /\ VideoEnded) =>
        /\ latest # PartialLatest
        /\ latest_before.exists => latest \in {OldLatest, NewLatest}


\* the ratio target / source of the side that limits the scale is a whole
\* number of at least 2, or both sides of the target are multiples of the
\* sides of the source
IntegerUpscale ==
    /\ r_size # r_target
    /\ \/ IF r_target[1] * r_size[2] <= r_target[2] * r_size[1]
          THEN r_target[1] % r_size[1] = 0 /\ r_target[1] >= 2 * r_size[1]
          ELSE r_target[2] % r_size[2] = 0 /\ r_target[2] >= 2 * r_size[2]
       \/ (r_target[1] % r_size[1] = 0 /\ r_target[2] % r_size[2] = 0)

\* how the returned image was resized: not at all, or with the filter
ModeUsed == IF r_ret.resampled THEN r_ret.filter ELSE "none"

\* C13 (as claimed): resize_image_to_fit does not resample a source that has
\* the size of the target, resamples with nearest-neighbour when the scale
\* is an integer upscale or the source divides the target evenly, and with
\* the Lanczos filter whenever it resamples in any other case.
C13_ResampleModeBySizes ==
    r_pc = "returned" =>
        /\ r_size = r_target => ModeUsed = "none"
        /\ IntegerUpscale => ModeUsed = "NEAREST"
        /\ (r_size # r_target /\ ~IntegerUpscale /\ r_ret.resampled) => ModeUsed = "LANCZOS"

\* what the code does instead: one filter for every pair of sizes
C13_AlwaysLanczos ==
    r_pc = "returned" =>
        /\ r_ret.filter = "LANCZOS"
        /\ r_ret.resampled <=> <<r_ret.box[3], r_ret.box[4]>> # r_size

\* floor(src * scale) for scale = min(target_w / src_w, target_h / src_h),
\* in exact arithmetic
ExactSize ==
    IF r_target[1] * r_size[2] <= r_target[2] * r_size[1]
    THEN <<r_target[1], (r_size[2] * r_target[1]) \div r_size[1]>>
    ELSE <<(r_size[1] * r_target[2]) \div r_size[2], r_target[2]>>

\* C14 (as claimed): for all positive sizes resize_image_to_fit returns a
\* canvas of the target size and a box (x, y, new_w, new_h) with new_w and
\* new_h the floors of the scaled source sides, x and y the halves (rounded
\* down) of what is left of the canvas; the box lies inside the canvas, one
\* of its sides is the side of the canvas, and both sides are at least 1.
C14_PlacementBox ==
    r_pc \in {"returned", "raised"} =>
        /\ r_pc = "returned"
        /\ r_ret.canvas = r_target
        /\ <<r_ret.box[3], r_ret.box[4]>> = ExactSize
        /\ r_ret.box[1] = (r_target[1] - r_ret.box[3]) \div 2
        /\ r_ret.box[2] = (r_target[2] - r_ret.box[4]) \div 2
        /\ r_ret.box[1] >= 0
        /\ r_ret.box[2] >= 0
        /\ r_ret.box[1] + r_ret.box[3] <= r_target[1]
        /\ r_ret.box[2] + r_ret.box[4] <= r_target[2]
        /\ (r_ret.box[3] = r_target[1] \/ r_ret.box[4] = r_target[2])
        /\ r_ret.box[3] >= 1
        /\ r_ret.box[4] >= 1

\* the part of C14 the code keeps: a call that returns gives a canvas of the
\* target size and a centred box inside it, no side more than one pixel
\* short of the exact floor
C14_BoxInsideCanvas ==
    r_pc = "returned" =>
        /\ r_ret.canvas = r_target
        /\ r_ret.box[1] = (r_target[1] - r_ret.box[3]) \div 2
        /\ r_ret.box[2] = (r_target[2] - r_ret.box[4]) \div 2
        /\ r_ret.box[1] >= 0
        /\ r_ret.box[2] >= 0
        /\ r_ret.box[1] + r_ret.box[3] <= r_target[1]
        /\ r_ret.box[2] + r_ret.box[4] <= r_target[2]
        /\ r_ret.box[3] \in {ExactSize[1], ExactSize[1] - 1}
        /\ r_ret.box[4] \in {ExactSize[2], ExactSize[2] - 1}

\* C15 (as claimed): a run of generate_timelapse.py that finds fewer than two
\* snapshots (none, or one named with its number) ends normally: create_timelapse_with_ffmpeg returned False and
\* nothing was raised, ffmpeg was not run, docs/timelapse.mp4 is as it was,
\* update_timelapse_info has written its file and the status is 0.
C15_TooFewSnapshotsHandled ==
    (/\ g_pc = "exited"
     /\ Cardinality(SnapshotPaths) < 2
     /\ \A p \in SnapshotPaths : snapshot_key(p).ok) =>
        /\ g_raised = "none"
        /\ g_ret = "False"
        /\ g_ffmpeg_runs = 0
        /\ g_docs.mp4 # "new"
        /\ g_info.written
        /\ g_exit = 0

\* the part of C15 the code keeps: with fewer than two snapshots ffmpeg is
\* not run and docs/timelapse.mp4, timelapse.gif and image_list.txt are left
C15_TooFewSnapshotsNoVideo ==
    Cardinality(SnapshotPaths) < 2 =>
        /\ g_ffmpeg_runs = 0
        /\ g_docs.mp4 # "new"
        /\ g_docs.gif # "new"
        /\ ~g_docs.list_file

\* what the code does with fewer than two snapshots: the run ends with an
\* exception, status 1, and docs/timelapse_info.json is not written
C15_TooFewSnapshotsRaises ==
    (g_pc = "exited" /\ Cardinality(SnapshotPaths) < 2) =>
        /\ g_raised \in {"TypeError", "ValueError"}
        /\ g_ret = "none"
        /\ ~g_info.written
        /\ g_exit = 1

====
